---- MODULE Spec2Model ----
(***************************************************************************)
(* hub-taguri: minting and parsing of RFC 4151 tag URIs.                   *)
(*                                                                         *)
(* A Python str is modelled as a sequence of characters, each character a  *)
(* one-element TLA+ string ("a", ":", "\n").  A character outside ASCII is *)
(* written by its code point name ("U+00E9").  Python's None is the model  *)
(* one-element sequence None, whose element is not a character.           *)
(***************************************************************************)
EXTENDS Integers, Sequences, FiniteSets, TLC

None == <<"None">>

\* ------------------------------------------------------------------------
\* Character classes
\* ------------------------------------------------------------------------
LF == "\n"

AsciiDigits == {"0", "1", "2", "3", "4", "5", "6", "7", "8", "9"}

AsciiLower ==
    {"a", "b", "c", "d", "e", "f", "g", "h", "i", "j", "k", "l", "m",
     "n", "o", "p", "q", "r", "s", "t", "u", "v", "w", "x", "y", "z"}

AsciiUpper ==
    {"A", "B", "C", "D", "E", "F", "G", "H", "I", "J", "K", "L", "M",
     "N", "O", "P", "Q", "R", "S", "T", "U", "V", "W", "X", "Y", "Z"}

AsciiLetters == AsciiLower \cup AsciiUpper

AlphaNum == AsciiLetters \cup AsciiDigits

\* Letters and digits outside ASCII that str.isalpha / str.isdigit / \d accept:
\* e-acute, hiragana A; arabic-indic digit three, fullwidth digit two.
NonAsciiLetters == {"U+00E9", "U+3042"}
NonAsciiDigits == {"U+0663", "U+FF12"}

HexDigits == AsciiDigits \cup {"a", "b", "c", "d", "e", "f"} \cup {"A", "B", "C", "D", "E", "F"}

\* str.isdigit() and str.isalpha() of one character
isdigit(c) == c \in AsciiDigits \cup NonAsciiDigits
isalpha(c) == c \in AsciiLetters \cup NonAsciiLetters

\* ------------------------------------------------------------------------
\* Python str primitives
\* ------------------------------------------------------------------------
Tail2(s) == SubSeq(s, 3, Len(s))

Contains(s, c) == \E i \in 1..Len(s) : s[i] = c

FirstIndex(s, c) == CHOOSE i \in 1..Len(s) : s[i] = c /\ \A j \in 1..(i - 1) : s[j] # c

\* s.split(c) where the code asks for s.split(c, maxsplit=n): the limit is lost
RECURSIVE SplitMax_unlimited(_, _, _)
SplitMax_unlimited(s, c, n) ==
    IF ~Contains(s, c)
    THEN <<s>>
    ELSE LET i == FirstIndex(s, c)
         IN <<SubSeq(s, 1, i - 1)>> \o SplitMax_unlimited(SubSeq(s, i + 1, Len(s)), c, n)

\* s.split(c, maxsplit=n); n < 0 means no limit, as in Python
RECURSIVE SplitMax(_, _, _)
SplitMax(s, c, n) ==
    IF n = 0 \/ ~Contains(s, c)
    THEN <<s>>
    ELSE LET i == FirstIndex(s, c)
         IN <<SubSeq(s, 1, i - 1)>> \o SplitMax(SubSeq(s, i + 1, Len(s)), c, n - 1)

Split(s, c) == SplitMax(s, c, -1)

\* c.join(parts)
RECURSIVE Join(_, _)
Join(parts, c) ==
    IF Len(parts) = 0 THEN <<>>
    ELSE IF Len(parts) = 1 THEN parts[1]
    ELSE parts[1] \o <<c>> \o Join(Tail(parts), c)

\* ''.join(parts)
RECURSIVE Concat(_)
Concat(parts) == IF Len(parts) = 0 THEN <<>> ELSE parts[1] \o Concat(Tail(parts))

startswith(s, c) == Len(s) > 0 /\ s[1] = c
endswith(s, c) == Len(s) > 0 /\ s[Len(s)] = c

\* A pattern ^(body)$ given to re.match: "$" matches at the end of the string
\* and also just before a newline that ends the string.
DollarBodies(s) ==
    {s} \cup (IF Len(s) > 0 /\ s[Len(s)] = LF THEN {SubSeq(s, 1, Len(s) - 1)} ELSE {})

\* ------------------------------------------------------------------------
\* validator.py
\* ------------------------------------------------------------------------
EmailUserChars == AlphaNum \cup {".", "-", "_", "+"}

\* EMAIL_USER_RE = ^([0-9a-zA-Z\.\-\_\+]+)$
EMAIL_USER_RE(s) ==
    \E b \in DollarBodies(s) : Len(b) >= 1 /\ \A i \in 1..Len(b) : b[i] \in EmailUserChars

\* DNSCOMP_RE = ^([a-zA-Z0-9](?:[a-zA-Z0-9\-]*[a-zA-Z0-9])?)$
DNSCOMP_RE(s) ==
    \E b \in DollarBodies(s) :
        /\ Len(b) >= 1
        /\ b[1] \in AlphaNum
        /\ b[Len(b)] \in AlphaNum
        /\ \A i \in 1..Len(b) : b[i] \in AlphaNum \cup {"-"}

\* the pattern with {2} lost: one hex digit, then any character
PCT_HEX_TOKEN_RE_one_digit(s) == Len(s) >= 2 /\ s[1] \in HexDigits

\* PCT_HEX_TOKEN_RE = ^([0-9a-fA-F]{2})
PCT_HEX_TOKEN_RE(s) == Len(s) >= 2 /\ s[1] \in HexDigits /\ s[2] \in HexDigits

validate_dns_name(dns_name) ==
    IF startswith(dns_name, ".") \/ endswith(dns_name, ".")
    THEN FALSE
    ELSE LET comps == Split(dns_name, ".")
         IN \A k \in 1..Len(comps) : DNSCOMP_RE(comps[k])

validate_email_address(email_address) ==
    LET parts == Split(email_address, "@")
    IN IF Len(parts) # 2
       THEN FALSE
       ELSE EMAIL_USER_RE(parts[1]) /\ validate_dns_name(parts[2])

authority_name_validator(authority_name) ==
    IF Len(Split(authority_name, "@")) = 2
    THEN validate_email_address(authority_name)
    ELSE validate_dns_name(authority_name)

\* int() of one decimal digit character
DigitVal(c) ==
    CASE c = "0" -> 0 [] c = "1" -> 1 [] c = "2" -> 2 [] c = "3" -> 3 [] c = "4" -> 4
      [] c = "5" -> 5 [] c = "6" -> 6 [] c = "7" -> 7 [] c = "8" -> 8 [] c = "9" -> 9
      [] c = "U+0663" -> 3 [] c = "U+FF12" -> 2

\* int() of a string of decimal digits; a leading space is skipped, as int(" 5") = 5
RECURSIVE IntOf(_)
IntOf(s) ==
    IF Len(s) = 0 THEN 0
    ELSE IF s[1] = " " THEN IntOf(Tail(s))
    ELSE IntOf(SubSeq(s, 1, Len(s) - 1)) * 10 + DigitVal(s[Len(s)])

Digits1to9 == AsciiDigits \ {"0"}

\* Lengths matched at the start of s by the alternatives of the strptime
\* directive %m, (?P<m>1[0-2]|0[1-9]|[1-9]), in order; 0 = the alternative fails.
MonthAltLens(s) ==
    << IF Len(s) >= 2 /\ s[1] = "1" /\ s[2] \in {"0", "1", "2"} THEN 2 ELSE 0,
       IF Len(s) >= 2 /\ s[1] = "0" /\ s[2] \in Digits1to9 THEN 2 ELSE 0,
       IF Len(s) >= 1 /\ s[1] \in Digits1to9 THEN 1 ELSE 0 >>

\* The same for %d, (?P<d>3[0-1]|[1-2]\d|0[1-9]|[1-9]| [1-9])
DayAltLens(s) ==
    << IF Len(s) >= 2 /\ s[1] = "3" /\ s[2] \in {"0", "1"} THEN 2 ELSE 0,
       IF Len(s) >= 2 /\ s[1] \in {"1", "2"} /\ isdigit(s[2]) THEN 2 ELSE 0,
       IF Len(s) >= 2 /\ s[1] = "0" /\ s[2] \in Digits1to9 THEN 2 ELSE 0,
       IF Len(s) >= 1 /\ s[1] \in Digits1to9 THEN 1 ELSE 0,
       IF Len(s) >= 2 /\ s[1] = " " /\ s[2] \in Digits1to9 THEN 2 ELSE 0 >>

\* %Y, (?P<Y>\d\d\d\d), at the start of s
YearMatches(s) == Len(s) >= 4 /\ \A i \in 1..4 : isdigit(s[i])

\* first alternative that matches, 0 when none does
FirstAlt(lens) ==
    IF \E k \in 1..Len(lens) : lens[k] > 0
    THEN CHOOSE k \in 1..Len(lens) : lens[k] > 0 /\ \A j \in 1..(k - 1) : lens[j] = 0
    ELSE 0

IsLeap(year) == year % 4 = 0 /\ (year % 100 # 0 \/ year % 400 = 0)

\* the calendar check without leap years
DaysInMonth_no_leap(year, month) ==
    IF month = 2 THEN 28
    ELSE IF month \in {4, 6, 9, 11} THEN 30 ELSE 31

DaysInMonth(year, month) ==
    IF month = 2 THEN (IF IsLeap(year) THEN 29 ELSE 28)
    ELSE IF month \in {4, 6, 9, 11} THEN 30 ELSE 31

\* datetime.date(year, month, day) does not raise ValueError
ValidDate(year, month, day) ==
    /\ year >= 1
    /\ month \in 1..12
    /\ day >= 1 /\ day <= DaysInMonth(year, month)

\* datetime.strptime(date, '%Y') does not raise: the pattern matches at the
\* start, no unconverted data remains, and the date exists (month 1, day 1).
Strptime_Y(date) ==
    /\ YearMatches(date)
    /\ Len(date) = 4
    /\ ValidDate(IntOf(SubSeq(date, 1, 4)), 1, 1)

\* datetime.strptime(date, '%Y-%m') does not raise
Strptime_Ym(date) ==
    /\ YearMatches(date)
    /\ Len(date) >= 5 /\ date[5] = "-"
    /\ LET rest == SubSeq(date, 6, Len(date))
           k == FirstAlt(MonthAltLens(rest))
       IN /\ k # 0
          /\ LET mlen == MonthAltLens(rest)[k]
             IN /\ Len(rest) = mlen
                /\ ValidDate(IntOf(SubSeq(date, 1, 4)), IntOf(SubSeq(rest, 1, mlen)), 1)

\* datetime.strptime(date, '%Y-%m-%d') does not raise.  The month alternative
\* taken is the first one after which "-" and a day alternative match.
Strptime_Ymd(date) ==
    /\ YearMatches(date)
    /\ Len(date) >= 5 /\ date[5] = "-"
    /\ LET rest == SubSeq(date, 6, Len(date))
           mlens == MonthAltLens(rest)
           after(k) == SubSeq(rest, mlens[k] + 2, Len(rest))
           usable == << IF /\ mlens[1] > 0 /\ Len(rest) > mlens[1] /\ rest[mlens[1] + 1] = "-"
                           /\ FirstAlt(DayAltLens(after(1))) # 0 THEN 1 ELSE 0,
                        IF /\ mlens[2] > 0 /\ Len(rest) > mlens[2] /\ rest[mlens[2] + 1] = "-"
                           /\ FirstAlt(DayAltLens(after(2))) # 0 THEN 1 ELSE 0,
                        IF /\ mlens[3] > 0 /\ Len(rest) > mlens[3] /\ rest[mlens[3] + 1] = "-"
                           /\ FirstAlt(DayAltLens(after(3))) # 0 THEN 1 ELSE 0 >>
           k == FirstAlt(usable)
       IN /\ k # 0
          /\ LET dstr == after(k)
                 dlen == DayAltLens(dstr)[FirstAlt(DayAltLens(dstr))]
             IN /\ Len(dstr) = dlen
                /\ ValidDate(IntOf(SubSeq(date, 1, 4)),
                             IntOf(SubSeq(rest, 1, mlens[k])),
                             IntOf(dstr))

\* for format in ('%Y-%m-%d', '%Y-%m', '%Y'): first format that parses wins
date_validator(date) ==
    IF Strptime_Ymd(date) THEN TRUE
    ELSE IF Strptime_Ym(date) THEN TRUE
    ELSE IF Strptime_Y(date) THEN TRUE
    ELSE FALSE

pchar_tokens ==
    {"/", "?", ":", "@", "-", ".", "_", "~",
     "!", "$", "&", "'", "(", ")", "*", "+", ",", ";", "="}

\* remainder list of specific_validator: the first chunk, then every later
\* chunk without its first two characters
RECURSIVE Remainder(_)
Remainder(tokens) ==
    IF Len(tokens) = 0 THEN <<>>
    ELSE <<Tail2(tokens[1])>> \o Remainder(Tail(tokens))

specific_validator(specific) ==
    LET pct_encoded_tokens == Split(specific, "%")
        rest == Tail(pct_encoded_tokens)
    IN IF \E k \in 1..Len(rest) : ~PCT_HEX_TOKEN_RE(rest[k])
       THEN FALSE
       ELSE LET specific_without_pct_tokens ==
                    Concat(<<pct_encoded_tokens[1]>> \o Remainder(rest))
            IN \A i \in 1..Len(specific_without_pct_tokens) :
                   LET pchar == specific_without_pct_tokens[i]
                   IN isdigit(pchar) \/ isalpha(pchar) \/ pchar \in pchar_tokens

\* ------------------------------------------------------------------------
\* minter.py
\* ------------------------------------------------------------------------
OK == "ok"

\* bool(x) of an "str or None" value: None and '' are falsy
Truthy(x) == x # None /\ x # <<>>

\* a TagUriMinter whose private fields are not set yet
NoMinter == [authority_name |-> None, date |-> None]

\* TagUriMinter.__init__ with the two checks in the other order
MinterInit_date_first(authority_name, date) ==
    IF ~date_validator(date)
    THEN [error |-> "Invalid date", self |-> NoMinter]
    ELSE IF ~authority_name_validator(authority_name)
    THEN [error |-> "Invalid authority name", self |-> [NoMinter EXCEPT !.date = date]]
    ELSE [error |-> OK, self |-> [authority_name |-> authority_name, date |-> date]]

\* TagUriMinter.__init__: the raised error (OK when none) and the fields set
MinterInit(authority_name, date) ==
    IF ~authority_name_validator(authority_name)
    THEN [error |-> "Invalid authority name", self |-> NoMinter]
    ELSE LET self1 == [NoMinter EXCEPT !.authority_name = authority_name]
         IN IF ~date_validator(date)
            THEN [error |-> "Invalid date", self |-> self1]
            ELSE [error |-> OK, self |-> [self1 EXCEPT !.date = date]]

\* TagUriMinter.tagging_entity
tagging_entity(self) == self.authority_name \o <<",">> \o self.date

\* TagUriMinter.prefix
prefix(self) == <<"t", "a", "g", ":">> \o self.authority_name \o <<",">> \o self.date

\* TagUriMinter.mint appending "#" whether or not a fragment is given
mint_always_hash(self, specific, fragment) ==
    IF ~specific_validator(specific)
    THEN [error |-> "Invalid specific", value |-> None, calls |-> 1]
    ELSE IF Truthy(fragment) /\ ~specific_validator(fragment)
    THEN [error |-> "Invalid fragment", value |-> None, calls |-> 2]
    ELSE [error |-> OK, calls |-> IF Truthy(fragment) THEN 2 ELSE 1,
          value |-> <<"t", "a", "g", ":">> \o self.authority_name \o <<",">> \o self.date
                    \o <<":">> \o specific \o <<"#">>
                    \o (IF Truthy(fragment) THEN fragment ELSE <<>>)]

\* TagUriMinter.mint validating the fragment before the specific
mint_fragment_first(self, specific, fragment) ==
    IF Truthy(fragment) /\ ~specific_validator(fragment)
    THEN [error |-> "Invalid fragment", value |-> None, calls |-> 1]
    ELSE IF ~specific_validator(specific)
    THEN [error |-> "Invalid specific", value |-> None,
          calls |-> IF Truthy(fragment) THEN 2 ELSE 1]
    ELSE IF Truthy(fragment)
    THEN [error |-> OK, calls |-> 2,
          value |-> <<"t", "a", "g", ":">> \o self.authority_name \o <<",">> \o self.date
                    \o <<":">> \o specific \o <<"#">> \o fragment]
    ELSE [error |-> OK, calls |-> 1,
          value |-> <<"t", "a", "g", ":">> \o self.authority_name \o <<",">> \o self.date
                    \o <<":">> \o specific]

\* TagUriMinter.mint: the raised error (OK when none), the returned string and
\* the number of calls made to specific_validator
mint(self, specific, fragment) ==
    IF ~specific_validator(specific)
    THEN [error |-> "Invalid specific", value |-> None, calls |-> 1]
    ELSE IF Truthy(fragment)
    THEN IF ~specific_validator(fragment)
         THEN [error |-> "Invalid fragment", value |-> None, calls |-> 2]
         ELSE [error |-> OK, calls |-> 2,
               value |-> prefix(self) \o <<":">> \o specific \o <<"#">> \o fragment]
    ELSE [error |-> OK, calls |-> 1, value |-> prefix(self) \o <<":">> \o specific]

\* ------------------------------------------------------------------------
\* parser.py
\* ------------------------------------------------------------------------
\* a TagUriParser whose private fields are not set yet
NoParser == [tag |-> None, authority |-> None, date |-> None,
             specific |-> None, fragment |-> None]

\* lines 55-71 splitting the payload at its first '#' only
ParseSpecific_first_hash(self, payload) ==
    LET has_hash == Contains(payload, "#")
        pieces == SplitMax(payload, "#", 1)
    IN IF has_hash /\ ~specific_validator(pieces[2])
       THEN [error |-> "Invalid tag_uri: invalid fragment", self |-> self]
       ELSE LET specific == IF has_hash THEN pieces[1] ELSE payload
                self1 == [self EXCEPT !.fragment = IF has_hash THEN pieces[2] ELSE None]
            IN IF ~specific_validator(specific)
               THEN [error |-> "Invalid tag_uri: invalid specific", self |-> self1]
               ELSE [error |-> OK, self |-> [self1 EXCEPT !.specific = specific]]

\* lines 55-71 validating the specific before the fragment
ParseSpecific_specific_first(self, payload) ==
    LET has_hash == Contains(payload, "#")
        pieces == Split(payload, "#")
    IN IF has_hash /\ Len(pieces) # 2
       THEN [error |-> "Invalid tag_uri: too many fragments", self |-> self]
       ELSE LET specific == IF has_hash THEN pieces[1] ELSE payload
            IN IF ~specific_validator(specific)
               THEN [error |-> "Invalid tag_uri: invalid specific", self |-> self]
               ELSE IF has_hash /\ ~specific_validator(pieces[2])
               THEN [error |-> "Invalid tag_uri: invalid fragment",
                     self |-> [self EXCEPT !.specific = specific]]
               ELSE [error |-> OK,
                     self |-> [self EXCEPT !.specific = specific,
                                           !.fragment = IF has_hash THEN pieces[2] ELSE None]]

\* TagUriParser.__init__, lines 55-71: fragment and specific
ParseSpecific(self, payload) ==
    LET has_hash == Contains(payload, "#")
        pieces == Split(payload, "#")
    IN IF has_hash /\ Len(pieces) # 2
       THEN [error |-> "Invalid tag_uri: too many fragments", self |-> self]
       ELSE IF has_hash /\ ~specific_validator(pieces[2])
       THEN [error |-> "Invalid tag_uri: invalid fragment", self |-> self]
       ELSE LET specific == IF has_hash THEN pieces[1] ELSE payload
                self1 == [self EXCEPT !.fragment = IF has_hash THEN pieces[2] ELSE None]
            IN IF ~specific_validator(specific)
               THEN [error |-> "Invalid tag_uri: invalid specific", self |-> self1]
               ELSE [error |-> OK, self |-> [self1 EXCEPT !.specific = specific]]

\* lines 38-53 without the date check
ParseTaggingEntity_any_date(self, entity, payload) ==
    LET pieces == Split(entity, ",")
    IN IF Len(pieces) # 2
       THEN [error |-> "Invalid tag_uri: invalid tagging entity", self |-> self]
       ELSE IF ~authority_name_validator(pieces[1])
       THEN [error |-> "Invalid tag_uri: invalid authority name", self |-> self]
       ELSE ParseSpecific([self EXCEPT !.authority = pieces[1], !.date = pieces[2]], payload)

\* TagUriParser.__init__, lines 38-53: the tagging entity
ParseTaggingEntity(self, entity, payload) ==
    LET pieces == Split(entity, ",")
    IN IF Len(pieces) # 2
       THEN [error |-> "Invalid tag_uri: invalid tagging entity", self |-> self]
       ELSE IF ~authority_name_validator(pieces[1])
       THEN [error |-> "Invalid tag_uri: invalid authority name", self |-> self]
       ELSE LET self1 == [self EXCEPT !.authority = pieces[1]]
            IN IF ~date_validator(pieces[2])
               THEN [error |-> "Invalid tag_uri: invalid date", self |-> self1]
               ELSE ParseSpecific([self1 EXCEPT !.date = pieces[2]], payload)

\* TagUriParser.__init__ testing the prefix before the number of pieces
ParserInit_prefix_first(tag_uri) ==
    LET tokens == SplitMax(tag_uri, ":", 2)
    IN IF tokens[1] # <<"t", "a", "g">>
       THEN [error |-> "Invalid tag_uri: invalid prefix", self |-> NoParser]
       ELSE IF Len(tokens) # 3
       THEN [error |-> "Invalid tag_uri: misses parts", self |-> NoParser]
       ELSE ParseTaggingEntity([NoParser EXCEPT !.tag = tag_uri], tokens[2], tokens[3])

\* TagUriParser.__init__: the raised error (OK when none) and the fields set
ParserInit(tag_uri) ==
    LET tokens == SplitMax(tag_uri, ":", 2)
    IN IF Len(tokens) # 3
       THEN [error |-> "Invalid tag_uri: misses parts", self |-> NoParser]
       ELSE LET self1 == [NoParser EXCEPT !.tag = tag_uri]
            IN IF tokens[1] # <<"t", "a", "g">>
               THEN [error |-> "Invalid tag_uri: invalid prefix", self |-> self1]
               ELSE ParseTaggingEntity(self1, tokens[2], tokens[3])

\* TagUriParser.tagging_entity
parser_tagging_entity(self) == self.authority \o <<",">> \o self.date

\* TagUriParser.tag and TagUriParser.__str__
parser_tag(self) == self.tag
parser_str(self) == self.tag

\* ------------------------------------------------------------------------
\* Inputs
\* ------------------------------------------------------------------------
MaxAuthLen == 2
MaxSpecLen == 2
MaxFragLen == 1
MaxCommas == 2
MaxHashes == 2
MaxProbeLen == 4
MaxFieldLen == 2
MaxSpecProbeLen == 3

\* all strings of at most n characters of alpha
RECURSIVE Strings(_, _)
Strings(alpha, n) ==
    IF n = 0 THEN {<<>>}
    ELSE LET shorter == Strings(alpha, n - 1)
         IN shorter \cup {Append(s, c) : s \in shorter, c \in alpha}

\* all lists of 1..n elements of S
RECURSIVE Lists(_, _)
Lists(S, n) ==
    IF n = 0 THEN {}
    ELSE LET shorter == Lists(S, n - 1)
         IN {<<x>> : x \in S} \cup {Append(l, x) : l \in shorter, x \in S}

AuthorityArgs == Strings({"a", ".", "@", ",", LF}, MaxAuthLen)

DateArgs ==
    { <<"2", "0", "1", "8">>,
      <<"2", "0", "1", "9", "-", "0", "2", "-", "2", "9">>,
      <<"2", "0", "1", "8", "-", "1", "-", " ", "5">>,
      <<"1", "8">>,
      <<>> }

SpecificChars == {"4", ":", "#", "%", ","}

SpecificArgs == Strings(SpecificChars, MaxSpecLen)

FragmentArgs == Strings({"4", "#", "%"}, MaxFragLen) \cup {None}

\* Strings handed to the parser: prefix ":" tagging entity ":" payload, and the
\* same with the prefix or the payload left out; the tagging entity has up to
\* MaxCommas commas and the payload up to MaxHashes '#'.
PrefixPieces == {<<"t", "a", "g">>, <<"t", "i", "g">>, <<>>}

EntityParts == {<<"a">>, <<"2", "0", "1", "8">>, <<"-">>}

PayloadParts == {<<>>, <<"4", ":", "4">>, <<"%">>}

EntityPieces == {Join(l, ",") : l \in Lists(EntityParts, MaxCommas + 1)}

PayloadPieces == {Join(l, "#") : l \in Lists(PayloadParts, MaxHashes + 1)}

ParserArgs ==
    UNION { { Join(<<p, e, y>>, ":"), Join(<<e, y>>, ":"), Join(<<p, e>>, ":"), p }
            : p \in PrefixPieces, e \in EntityPieces, y \in PayloadPieces }

ProbeChars == {"a", "-", ".", "@", "+", ",", LF}

AuthorityProbes == Strings(ProbeChars, MaxProbeLen)

\* Strings handed to date_validator: a year field, then nothing or "-" and a
\* month field, then nothing or "-" and a day field or a time-of-day suffix.
YearFields ==
    { <<"2", "0", "2", "0">>, <<"1", "9", "0", "0">>, <<"2", "0", "0", "0">>,
      <<"0", "0", "0", "1">>, <<"9", "9", "9", "9">>, <<"0", "0", "0", "0">>,
      <<"3", "4", "1">>, <<"y", "e", "a", "r">>, <<"U+FF12", "0", "1", "U+0663">> }

MonthFields == Strings({"0", "1", "2", "3"}, MaxFieldLen)

DayFields ==
    Strings({"0", "1", "2", "3", "9"}, MaxFieldLen)
        \cup { <<" ", "9">>, <<"2", "U+0663">>, <<"D", "D">>,
               <<"2", "9", "T", "1", "4", ":", "0", "4">> }

DateProbes ==
    YearFields
        \cup {y \o <<"-">> \o m : y \in YearFields, m \in MonthFields}
        \cup {y \o <<"-">> \o m \o <<"-">> \o d :
                  y \in YearFields, m \in MonthFields, d \in DayFields}

SpecificProbeChars == {"a", "g", "4", "%", "/", "#", " ", "<", "U+00E9", "U+0663"}

SpecificProbes == Strings(SpecificProbeChars, MaxSpecProbeLen)

\* ------------------------------------------------------------------------
\* State: one caller that either builds a minter, mints a tag and parses it
\* back, or parses a given string, or asks a validator about a given string.
\* ------------------------------------------------------------------------
VARIABLES
    pc,          \* position of the caller
    ctor_args,   \* arguments of TagUriMinter(...)
    ctor_error,  \* error raised by TagUriMinter(...), OK when none
    minter,      \* the TagUriMinter the caller holds
    mint_args,   \* arguments of minter.mint(...)
    minted,      \* outcome of minter.mint(...)
    tag_uri,     \* argument of TagUriParser(...)
    parse_error, \* error raised by TagUriParser(...), OK when none
    parser,      \* the TagUriParser the caller holds
    probe,       \* argument of the validator call
    verdict      \* bool() of what the validator returned

vars == <<pc, ctor_args, ctor_error, minter, mint_args, minted,
          tag_uri, parse_error, parser, probe, verdict>>

NoMint == [error |-> OK, value |-> None, calls |-> 0]

Init ==
    /\ pc = "start"
    /\ ctor_args = [authority_name |-> None, date |-> None]
    /\ ctor_error = OK
    /\ minter = NoMinter
    /\ mint_args = [specific |-> None, fragment |-> None]
    /\ minted = NoMint
    /\ tag_uri = None
    /\ parse_error = OK
    /\ parser = NoParser
    /\ probe = None
    /\ verdict = FALSE

\* minter = TagUriMinter(authority_name, date)
Construct ==
    /\ pc = "start"
    /\ \E authority_name \in AuthorityArgs, date \in DateArgs :
        LET r == MinterInit(authority_name, date)
        IN /\ ctor_args' = [authority_name |-> authority_name, date |-> date]
           /\ ctor_error' = r.error
           /\ minter' = IF r.error = OK THEN r.self ELSE NoMinter
           /\ pc' = IF r.error = OK THEN "built" ELSE "ctor_failed"
    /\ UNCHANGED <<mint_args, minted, tag_uri, parse_error, parser, probe, verdict>>

\* minter.mint(specific) and minter.mint(specific, fragment)
Mint ==
    /\ pc = "built"
    /\ \E specific \in SpecificArgs, fragment \in FragmentArgs :
        LET r == mint(minter, specific, fragment)
        IN /\ mint_args' = [specific |-> specific, fragment |-> fragment]
           /\ minted' = r
           /\ pc' = IF r.error = OK THEN "minted" ELSE "mint_failed"
    /\ UNCHANGED <<ctor_args, ctor_error, minter, tag_uri, parse_error, parser, probe, verdict>>

\* the body shared by the two calls of TagUriParser(...)
DoParse(input, next_pc) ==
    LET r == ParserInit(input)
    IN /\ tag_uri' = input
       /\ parse_error' = r.error
       /\ parser' = IF r.error = OK THEN r.self ELSE NoParser
       /\ pc' = next_pc

\* TagUriParser(minter.mint(...))
ParseMinted ==
    /\ pc = "minted"
    /\ DoParse(minted.value, "reparsed")
    /\ UNCHANGED <<ctor_args, ctor_error, minter, mint_args, minted, probe, verdict>>

\* TagUriParser(s) on a given string
Parse ==
    /\ pc = "start"
    /\ \E s \in ParserArgs : DoParse(s, "parsed")
    /\ UNCHANGED <<ctor_args, ctor_error, minter, mint_args, minted, probe, verdict>>

\* authority_name_validator(s) on a given string
ValidateAuthority ==
    /\ pc = "start"
    /\ \E s \in AuthorityProbes :
        /\ probe' = s
        /\ verdict' = authority_name_validator(s)
    /\ pc' = "authority_checked"
    /\ UNCHANGED <<ctor_args, ctor_error, minter, mint_args, minted, tag_uri, parse_error, parser>>

\* date_validator(s) on a given string
ValidateDate ==
    /\ pc = "start"
    /\ \E s \in DateProbes :
        /\ probe' = s
        /\ verdict' = date_validator(s)
    /\ pc' = "date_checked"
    /\ UNCHANGED <<ctor_args, ctor_error, minter, mint_args, minted, tag_uri, parse_error, parser>>

\* specific_validator(s) on a given string
ValidateSpecific ==
    /\ pc = "start"
    /\ \E s \in SpecificProbes :
        /\ probe' = s
        /\ verdict' = specific_validator(s)
    /\ pc' = "specific_checked"
    /\ UNCHANGED <<ctor_args, ctor_error, minter, mint_args, minted, tag_uri, parse_error, parser>>

Next ==
    \/ Construct
    \/ Mint
    \/ ParseMinted
    \/ Parse
    \/ ValidateAuthority
    \/ ValidateDate
    \/ ValidateSpecific

Spec == Init /\ [][Next]_vars

\* ------------------------------------------------------------------------
\* Properties
\* ------------------------------------------------------------------------
Count(s, c) == Cardinality({i \in 1..Len(s) : s[i] = c})

TagLiteral == <<"t", "a", "g", ":">>

\* the caller has called mint
HasMinted == pc \in {"minted", "mint_failed", "reparsed"}

\* the caller has called TagUriMinter
HasConstructed == pc \in {"built", "ctor_failed"} \/ HasMinted

\* C1: a valid (authority_name, date, specific) minted without a fragment is
\* minted without error, and the tag parses without error back to the same
\* authority_name, date and specific, with fragment None.
RoundTripNoFragment ==
    /\ (HasConstructed /\ authority_name_validator(ctor_args.authority_name)
           /\ date_validator(ctor_args.date))
          => ctor_error = OK
    /\ (HasMinted /\ mint_args.fragment = None /\ specific_validator(mint_args.specific))
          => minted.error = OK
    /\ (pc = "reparsed" /\ mint_args.fragment = None)
          => /\ parse_error = OK
             /\ parser.authority = ctor_args.authority_name
             /\ parser.date = ctor_args.date
             /\ parser.specific = mint_args.specific
             /\ parser.fragment = None

RoundTripNoFragment_witness ==
    /\ pc = "reparsed"
    /\ mint_args.fragment = None
    /\ Contains(mint_args.specific, ":")
    /\ Contains(mint_args.specific, ",")
    /\ parser.specific = mint_args.specific

\* C2: a valid (authority_name, date, specific) minted with a supplied fragment
\* that passes specific_validator parses without error back to the same
\* authority_name, date and specific, and the parsed fragment is the supplied one.
RoundTripWithFragment ==
    /\ (HasMinted /\ mint_args.fragment # None /\ specific_validator(mint_args.specific)
           /\ specific_validator(mint_args.fragment))
          => minted.error = OK
    /\ (pc = "reparsed" /\ mint_args.fragment # None)
          => /\ parse_error = OK
             /\ parser.authority = ctor_args.authority_name
             /\ parser.date = ctor_args.date
             /\ parser.specific = mint_args.specific
             /\ parser.fragment = mint_args.fragment

\* C3: mint(specific) returns "tag:" authority_name "," date ":" specific;
\* mint(specific, fragment) returns the same followed by "#" fragment for any
\* supplied fragment; tagging_entity is authority_name "," date and prefix is
\* "tag:" tagging_entity.
MintOutputFormat ==
    (pc \in {"minted", "reparsed"}) =>
        LET base == TagLiteral \o ctor_args.authority_name \o <<",">> \o ctor_args.date
                        \o <<":">> \o mint_args.specific
        IN /\ mint_args.fragment = None => minted.value = base
           /\ mint_args.fragment # None
                 => minted.value = base \o <<"#">> \o mint_args.fragment
           /\ tagging_entity(minter) = ctor_args.authority_name \o <<",">> \o ctor_args.date
           /\ prefix(minter) = TagLiteral \o tagging_entity(minter)

\* C4: TagUriMinter(authority_name, date) raises exactly when one of the two
\* arguments fails its validator, the authority name being reported first, and
\* on success the accessors return the arguments unchanged.
ConstructValidation ==
    HasConstructed =>
        LET va == authority_name_validator(ctor_args.authority_name)
            vd == date_validator(ctor_args.date)
        IN /\ (ctor_error # OK) <=> (~va \/ ~vd)
           /\ ~va => ctor_error = "Invalid authority name"
           /\ (va /\ ~vd) => ctor_error = "Invalid date"
           /\ ctor_error = OK => /\ minter.authority_name = ctor_args.authority_name
                                 /\ minter.date = ctor_args.date

ConstructValidation_witness ==
    /\ pc = "ctor_failed"
    /\ ~authority_name_validator(ctor_args.authority_name)
    /\ ~date_validator(ctor_args.date)
    /\ ctor_error = "Invalid authority name"

\* C5: mint raises exactly when the specific, or a supplied fragment, fails
\* specific_validator; an invalid specific is reported after one validator
\* call, an invalid fragment after two; a failed mint returns no string.
MintValidation ==
    HasMinted =>
        LET vs == specific_validator(mint_args.specific)
            supplied == mint_args.fragment # None
            vf == specific_validator(mint_args.fragment)
        IN /\ (minted.error # OK) <=> (~vs \/ (supplied /\ ~vf))
           /\ ~vs => (minted.error = "Invalid specific" /\ minted.calls = 1)
           /\ (vs /\ supplied /\ ~vf) => (minted.error = "Invalid fragment" /\ minted.calls = 2)
           /\ minted.error # OK => minted.value = None

MintValidation_witness ==
    /\ pc = "mint_failed"
    /\ specific_validator(mint_args.specific)
    /\ mint_args.fragment # None
    /\ minted.error = "Invalid fragment"
    /\ minted.calls = 2

\* the caller has called TagUriParser
HasParsed == pc \in {"parsed", "reparsed"}

\* position of the n-th occurrence of c in s
NthIndex(s, c, n) ==
    CHOOSE i \in 1..Len(s) :
        s[i] = c /\ Cardinality({j \in 1..(i - 1) : s[j] = c}) = n - 1

\* what precedes the first ':' (everything when there is none)
FirstPiece(s) == IF Contains(s, ":") THEN SubSeq(s, 1, NthIndex(s, ":", 1) - 1) ELSE s

\* what lies between the first two ':' and what follows the second
EntityOf(s) == SubSeq(s, NthIndex(s, ":", 1) + 1, NthIndex(s, ":", 2) - 1)
PayloadOf(s) == SubSeq(s, NthIndex(s, ":", 2) + 1, Len(s))

Before(s, c) == SubSeq(s, 1, NthIndex(s, c, 1) - 1)
After(s, c) == SubSeq(s, NthIndex(s, c, 1) + 1, Len(s))

\* C6: an input with fewer than two ':' fails with the missing-parts error;
\* otherwise all that follows the second ':' is the payload, so a specific
\* containing ':' is kept whole and an empty payload parses to specific ""
\* and fragment None.
ParserTokenization ==
    HasParsed =>
        /\ Count(tag_uri, ":") < 2 => parse_error = "Invalid tag_uri: misses parts"
        /\ Count(tag_uri, ":") >= 2 =>
              /\ parse_error # "Invalid tag_uri: misses parts"
              /\ parse_error = OK =>
                    /\ parser.fragment = None => parser.specific = PayloadOf(tag_uri)
                    /\ parser.fragment # None =>
                          parser.specific \o <<"#">> \o parser.fragment = PayloadOf(tag_uri)
                    /\ PayloadOf(tag_uri) = <<>> =>
                          (parser.specific = <<>> /\ parser.fragment = None)
        /\ tag_uri = <<"t", "a", "g", ":", "a", ",", "2", "0", "1", "8", ":", "4", ":", "4">> =>
              (parse_error = OK /\ parser.specific = <<"4", ":", "4">>)
        /\ tag_uri = <<"t", "a", "g", ":", "a", ",", "2", "0", "1", "8", ":">> =>
              (parse_error = OK /\ parser.specific = <<>> /\ parser.fragment = None)

ParserTokenization_witness ==
    /\ pc = "parsed"
    /\ Count(tag_uri, ":") = 3
    /\ parse_error = OK
    /\ Contains(parser.specific, ":")

\* C7 as stated: an input whose first ':'-piece is not "tag" fails with the
\* invalid-prefix error, also when the input has fewer than two ':'.
PrefixErrorAlways ==
    (HasParsed /\ FirstPiece(tag_uri) # <<"t", "a", "g">>)
        => parse_error = "Invalid tag_uri: invalid prefix"

\* C7 amended: an input with at least two ':' whose first piece is not "tag"
\* fails with the invalid-prefix error, and no other input does; an input with
\* fewer than two ':' fails with the missing-parts error whatever its first
\* piece is.
PrefixErrorAfterPieceCount ==
    HasParsed =>
        /\ (Count(tag_uri, ":") >= 2 /\ FirstPiece(tag_uri) # <<"t", "a", "g">>)
              <=> parse_error = "Invalid tag_uri: invalid prefix"
        /\ Count(tag_uri, ":") < 2 => parse_error = "Invalid tag_uri: misses parts"

PrefixErrorAfterPieceCount_witness ==
    /\ pc = "parsed"
    /\ Count(tag_uri, ":") = 1
    /\ Contains(FirstPiece(tag_uri), ",")
    /\ parse_error = "Invalid tag_uri: misses parts"

\* C8: with two ':' and prefix "tag", a tagging entity without exactly one
\* comma fails with the invalid-tagging-entity error; with a valid tagging
\* entity, a payload with more than one '#' fails with the too-many-fragments
\* error and a payload with exactly one '#' is split at it into specific and
\* fragment.
StructuralCounts ==
    (HasParsed /\ Count(tag_uri, ":") >= 2 /\ FirstPiece(tag_uri) = <<"t", "a", "g">>) =>
        LET e == EntityOf(tag_uri)
            y == PayloadOf(tag_uri)
        IN /\ Count(e, ",") # 1 => parse_error = "Invalid tag_uri: invalid tagging entity"
           /\ (/\ Count(e, ",") = 1
               /\ authority_name_validator(Before(e, ","))
               /\ date_validator(After(e, ","))) =>
                 /\ Count(y, "#") > 1 => parse_error = "Invalid tag_uri: too many fragments"
                 /\ Count(y, "#") = 1 =>
                       /\ parse_error = "Invalid tag_uri: invalid fragment"
                             <=> ~specific_validator(After(y, "#"))
                       /\ parse_error = "Invalid tag_uri: invalid specific"
                             <=> (specific_validator(After(y, "#"))
                                    /\ ~specific_validator(Before(y, "#")))
                       /\ parse_error \in {OK, "Invalid tag_uri: invalid fragment",
                                           "Invalid tag_uri: invalid specific"}
                       /\ parse_error = OK => /\ parser.specific = Before(y, "#")
                                              /\ parser.fragment = After(y, "#")

StructuralCounts_witness ==
    /\ pc = "parsed"
    /\ Count(tag_uri, ":") >= 2
    /\ Count(EntityOf(tag_uri), ",") = 1
    /\ Count(PayloadOf(tag_uri), "#") = 2
    /\ parse_error = "Invalid tag_uri: too many fragments"

\* C9: a parser constructed without error holds a valid authority name, date
\* and specific, a fragment that is None or valid and is None exactly when the
\* payload has no '#', and the input is "tag:" authority "," date ":" specific
\* followed by "#" fragment when there is one; tag and str() return the input.
ParserSuccessInvariant ==
    (HasParsed /\ parse_error = OK) =>
        /\ authority_name_validator(parser.authority)
        /\ date_validator(parser.date)
        /\ specific_validator(parser.specific)
        /\ parser.fragment = None \/ specific_validator(parser.fragment)
        /\ parser.fragment = None <=> ~Contains(PayloadOf(tag_uri), "#")
        /\ parser_tagging_entity(parser) = parser.authority \o <<",">> \o parser.date
        /\ tag_uri = TagLiteral \o parser_tagging_entity(parser) \o <<":">> \o parser.specific
                       \o (IF parser.fragment = None THEN <<>> ELSE <<"#">> \o parser.fragment)
        /\ parser_tag(parser) = tag_uri
        /\ parser_str(parser) = tag_uri

ParserSuccessInvariant_witness ==
    /\ pc = "parsed"
    /\ parse_error = OK
    /\ parser.fragment # None
    /\ parser.fragment # <<>>
    /\ parser.specific # <<>>

\* RFC 4151 dns-name: labels of letters, digits and interior hyphens joined by '.'
IsDnsName(s) ==
    /\ Len(s) >= 1
    /\ \A i \in 1..Len(s) : s[i] \in AlphaNum \cup {"-", "."}
    /\ s[1] \in AlphaNum
    /\ s[Len(s)] \in AlphaNum
    /\ \A i \in 1..Len(s) : s[i] = "." => (s[i - 1] \in AlphaNum /\ s[i + 1] \in AlphaNum)

\* RFC 4151 email-address with the '+' erratum: local part, one '@', dns-name
IsEmailAddress(s) ==
    /\ Count(s, "@") = 1
    /\ Len(Before(s, "@")) >= 1
    /\ \A i \in 1..Len(Before(s, "@")) : s[i] \in AlphaNum \cup {"-", ".", "_", "+"}
    /\ IsDnsName(After(s, "@"))

\* C10: authority_name_validator accepts a string exactly when it is a
\* dns-name or an email-address; every other string is rejected.
AuthorityGrammar ==
    pc = "authority_checked" => (verdict <=> (IsDnsName(probe) \/ IsEmailAddress(probe)))

\* s consists of exactly n ASCII digits
IsDigitField(s, n) == Len(s) = n /\ \A i \in 1..n : s[i] \in AsciiDigits

\* value of a field of ASCII digits
RECURSIVE FieldValue(_)
FieldValue(s) ==
    IF Len(s) = 0 THEN 0
    ELSE 10 * FieldValue(SubSeq(s, 1, Len(s) - 1))
           + (CHOOSE v \in 0..9 : <<"0", "1", "2", "3", "4", "5", "6", "7", "8", "9">>[v + 1] = s[Len(s)])

\* s consists of exactly n decimal digits of any script
IsAnyDigitField(s, n) ==
    Len(s) = n /\ \A i \in 1..n : s[i] \in AsciiDigits \cup NonAsciiDigits

\* one of the forms YYYY, YYYY-MM, YYYY-MM-DD
IsDateForm(s) ==
    LET f == Split(s, "-")
    IN /\ Len(f) \in 1..3
       /\ IsAnyDigitField(f[1], 4)
       /\ Len(f) >= 2 => IsAnyDigitField(f[2], 2)
       /\ Len(f) = 3 => IsAnyDigitField(f[3], 2)

\* C11: date_validator accepts only strings of the form YYYY, YYYY-MM or
\* YYYY-MM-DD with a year of exactly four digits and a month and a day of
\* exactly two digits each.
DateExactForms ==
    (pc = "date_checked" /\ verdict) => IsDateForm(probe)

\* days of a month of the proleptic Gregorian calendar
CalendarDays(year, month) ==
    LET leap == (year % 400 = 0) \/ (year % 4 = 0 /\ year % 100 # 0)
    IN <<31, IF leap THEN 29 ELSE 28, 31, 30, 31, 30, 31, 31, 30, 31, 30, 31>>[month]

\* C12: a date whose month field is outside 01..12, or whose day field is 00,
\* 32 or more, or more than the days of its month, is rejected; every
\* well-formed date of a year 0001..9999 with a month 01..12 and a day that
\* exists in that month is accepted.
CalendarCheck ==
    pc = "date_checked" =>
        LET f == Split(probe, "-")
            n == Len(f)
            wf(k, w) == n >= k /\ IsDigitField(f[k], w)
        IN /\ (wf(2, 2) /\ FieldValue(f[2]) \notin 1..12) => ~verdict
           /\ (wf(3, 2) /\ (FieldValue(f[3]) = 0 \/ FieldValue(f[3]) >= 32)) => ~verdict
           /\ (n = 3 /\ wf(1, 4) /\ wf(2, 2) /\ wf(3, 2) /\ FieldValue(f[2]) \in 1..12
                 /\ FieldValue(f[3]) > CalendarDays(FieldValue(f[1]), FieldValue(f[2])))
                 => ~verdict
           /\ (n = 1 /\ wf(1, 4) /\ FieldValue(f[1]) \in 1..9999) => verdict
           /\ (n = 2 /\ wf(1, 4) /\ wf(2, 2) /\ FieldValue(f[1]) \in 1..9999
                 /\ FieldValue(f[2]) \in 1..12) => verdict
           /\ (n = 3 /\ wf(1, 4) /\ wf(2, 2) /\ wf(3, 2) /\ FieldValue(f[1]) \in 1..9999
                 /\ FieldValue(f[2]) \in 1..12
                 /\ FieldValue(f[3]) \in 1..CalendarDays(FieldValue(f[1]), FieldValue(f[2])))
                 => verdict

CalendarCheck_witness ==
    /\ pc = "date_checked"
    /\ probe = <<"2", "0", "2", "0", "-", "0", "2", "-", "2", "9">>
    /\ verdict

\* every '%' of s is immediately followed by two hexadecimal digits
PercentsEncodeOctets(s) ==
    \A i \in 1..Len(s) :
        s[i] = "%" => (i + 2 <= Len(s) /\ s[i + 1] \in HexDigits /\ s[i + 2] \in HexDigits)

\* position i of s lies in a %XX marker
InMarker(s, i) == \E j \in {i - 2, i - 1, i} : j >= 1 /\ s[j] = "%"

\* the characters the tag grammar allows outside %XX markers
GrammarChars ==
    AsciiLetters \cup AsciiDigits
        \cup {"/", "?", ":", "@", "-", ".", "_", "~", "!", "$", "&", "'",
              "(", ")", "*", "+", ",", ";", "="}

\* C13: specific_validator accepts a string only if every '%' in it is
\* immediately followed by two hexadecimal digits; the empty string and
\* strings of allowed characters with well-formed %XX markers are accepted.
PercentEncodingRule ==
    pc = "specific_checked" =>
        /\ verdict => PercentsEncodeOctets(probe)
        /\ probe = <<>> => verdict
        /\ (PercentsEncodeOctets(probe)
              /\ \A i \in 1..Len(probe) : probe[i] \in {"a", "g", "4", "/", "%"}) => verdict

PercentEncodingRule_witness ==
    /\ pc = "specific_checked"
    /\ verdict
    /\ Contains(probe, "%")

\* C14: specific_validator accepts a string only if every character outside
\* the %XX markers is an ASCII letter, an ASCII digit or one of
\* / ? : @ - . _ ~ ! $ & ' ( ) * + , ; =
CharacterSetRule ==
    (pc = "specific_checked" /\ verdict) =>
        \A i \in 1..Len(probe) : InMarker(probe, i) \/ probe[i] \in GrammarChars

\* the error of the first rule, in the order of section 4.3, that s violates
FirstViolatedRule(s) ==
    IF Count(s, ":") < 2 THEN "Invalid tag_uri: misses parts"
    ELSE IF FirstPiece(s) # <<"t", "a", "g">> THEN "Invalid tag_uri: invalid prefix"
    ELSE IF Count(EntityOf(s), ",") # 1 THEN "Invalid tag_uri: invalid tagging entity"
    ELSE IF ~authority_name_validator(Before(EntityOf(s), ","))
    THEN "Invalid tag_uri: invalid authority name"
    ELSE IF ~date_validator(After(EntityOf(s), ",")) THEN "Invalid tag_uri: invalid date"
    ELSE IF Count(PayloadOf(s), "#") > 1 THEN "Invalid tag_uri: too many fragments"
    ELSE IF Count(PayloadOf(s), "#") = 1 /\ ~specific_validator(After(PayloadOf(s), "#"))
    THEN "Invalid tag_uri: invalid fragment"
    ELSE IF ~specific_validator(IF Count(PayloadOf(s), "#") = 1
                                THEN Before(PayloadOf(s), "#") ELSE PayloadOf(s))
    THEN "Invalid tag_uri: invalid specific"
    ELSE OK

\* C15: a failing TagUriParser construction raises the error of the first
\* violated rule in the order missing parts, prefix, tagging entity, authority
\* name, date, too many fragments, fragment, specific, and leaves the caller
\* without a parser.
ParserErrorPrecedence ==
    HasParsed =>
        /\ parse_error = FirstViolatedRule(tag_uri)
        /\ parse_error # OK => parser = NoParser

ParserErrorPrecedence_witness ==
    /\ pc = "parsed"
    /\ tag_uri = <<"t", "a", "g", ":", "a", ",", "2", "0", "1", "8", ":", "%", "#", "%">>
    /\ parse_error = "Invalid tag_uri: invalid fragment"

====
